---- MODULE Spec2Model ----
(***************************************************************************)
(* pico-bytes: the instruction codec (ByteCode <-> Bytes) and the program  *)
(* container codec (Program <-> Vec<u8>) of src/src/lib.rs.                *)
(*                                                                         *)
(* Number representation.  TLC's integers are 32 bits wide, so a u32 is    *)
(* kept as its four base-256 digits and a u64 as its eight base-256        *)
(* digits, least significant digit first.  to_be_bytes / from_be_bytes     *)
(* reverse the digit order, `as u32` keeps the four low digits, `>> 32`    *)
(* keeps the four high digits.  A u8 and a usize that stays small (a       *)
(* length, a position) are plain naturals.  A char is its code point; a    *)
(* String is the sequence of its chars.  An f64 is its bit pattern         *)
(* (to_bits / from_bits carry the 64 bits unchanged).                      *)
(***************************************************************************)
EXTENDS Integers, Sequences, FiniteSets, TLC

VARIABLES
    bytecode,     \* the ByteCode handed to From<ByteCode> for Bytes
    record,       \* the Bytes tuple (u8, u32, u32, u32)
    decoded,      \* the Result of TryFrom<Bytes> for ByteCode
    cstep,        \* position of the instruction-codec run
    program,      \* the Program handed to From<Program> for Vec<u8>
    buf,          \* the byte buffer handed to TryFrom<&[u8]> for Program
    cut,          \* number of bytes removed from the end of the serialized buffer
    poked,        \* TRUE when one byte of the serialized buffer was overwritten
    pc,           \* position of the parser in Program::try_from
    pos,          \* number of bytes the iterator `bytes` has yielded
    size,         \* the string count read from the buffer
    string_size,  \* the length read for the string being read
    strings,      \* the local `strings`
    code,         \* the local `code`
    result        \* the Result returned by Program::try_from

codecVars == <<bytecode, record, decoded, cstep>>
parserVars == <<pc, pos, size, string_size, strings, code, result>>
programVars == <<program, buf, cut, poked>>
vars == <<bytecode, record, decoded, cstep, program, buf, cut, poked,
          pc, pos, size, string_size, strings, code, result>>

----------------------------------------------------------------------------
(* Fixed-width integers *)

\* a u32 from a small natural (n < 2^31)
U32(n) == <<n % 256, (n \div 256) % 256, (n \div 65536) % 256, (n \div 16777216) % 256>>

\* u32::to_be_bytes: most significant byte first
ToBeBytes(w) == <<w[4], w[3], w[2], w[1]>>

\* u32::from_be_bytes([n1, n2, n3, n4])
FromBeBytes(b) == <<b[4], b[3], b[2], b[1]>>

\* the value of a u32 below 2^31
Val(w) == w[1] + 256 * w[2] + 65536 * w[3] + 16777216 * w[4]

\* n < w for a small natural n and a u32 w (the test of `for _ in 0..w`)
NatLess(n, w) ==
    LET m == U32(n) IN
    \/ m[4] < w[4]
    \/ m[4] = w[4] /\ m[3] < w[3]
    \/ m[4] = w[4] /\ m[3] = w[3] /\ m[2] < w[2]
    \/ m[4] = w[4] /\ m[3] = w[3] /\ m[2] = w[2] /\ m[1] < w[1]

\* the shift applied to the wrong word: `(value >> 32) as u32` for word2
Low32_Shifted(v) == <<v[5], v[6], v[7], v[8]>>

\* `value as u32` of a u64
Low32(v) == <<v[1], v[2], v[3], v[4]>>

\* `(value >> 32) as u32` of a u64
High32(v) == <<v[5], v[6], v[7], v[8]>>

\* `(lo as u64) | ((hi as u64) << 32)`
Join64(lo, hi) == lo \o hi

Zero == U32(0)

----------------------------------------------------------------------------
(* Operation code tables *)

BinaryOperation == {"Add", "Sub", "Div", "Mul"}
UnaryOperation == {"Neg"}

\* `op as u8` of a BinaryOperation: the discriminant, in declaration order
BinaryOperationAsU8(op) ==
    CASE op = "Add" -> 0
      [] op = "Sub" -> 1
      [] op = "Div" -> 2
      [] op = "Mul" -> 3

\* `op as u8` of a UnaryOperation
UnaryOperationAsU8(op) == CASE op = "Neg" -> 0

\* BinaryOperation::try_from(u8)
BinaryOperationTryFrom(value) ==
    CASE value = 0 -> [tag |-> "Ok", val |-> "Add"]
      [] value = 1 -> [tag |-> "Ok", val |-> "Sub"]
      [] value = 2 -> [tag |-> "Ok", val |-> "Div"]
      [] value = 3 -> [tag |-> "Ok", val |-> "Mul"]
      [] OTHER -> [tag |-> "Err", err |-> <<"BinaryOperationError">>]

\* UnaryOperation::try_from(u8)
UnaryOperationTryFrom(value) ==
    CASE value = 0 -> [tag |-> "Ok", val |-> "Neg"]
      [] OTHER -> [tag |-> "Err", err |-> <<"UnaryOperationError">>]

----------------------------------------------------------------------------
(* Instruction codec *)

Address(a) == [tag |-> "Address", addr |-> a]
FromRegister(a) == [tag |-> "FromRegister", addr |-> a]

Ok(v) == [tag |-> "Ok", val |-> v]
Err(e) == [tag |-> "Err", err |-> e]

\* From<ByteCode> for Bytes
ByteCodeIntoBytes(value) ==
    CASE value.op = "None" -> <<0, Zero, Zero, Zero>>
      [] value.op = "Halt" -> <<1, Zero, Zero, Zero>>
      [] value.op = "Jump" ->
            IF value.addr.tag = "Address"
            THEN <<2, Zero, value.addr.addr, Zero>>
            ELSE <<3, Zero, value.addr.addr, Zero>>
      [] value.op = "JumpIf" ->
            IF value.addr.tag = "Address"
            THEN <<4, value.cond, value.addr.addr, Zero>>
            ELSE <<5, value.cond, value.addr.addr, Zero>>
      [] value.op = "String" -> <<16, value.dst, value.addr, Zero>>
      [] value.op = "Int" -> <<17, value.dst, Low32(value.value), High32(value.value)>>
      [] value.op = "Float" -> <<18, value.dst, Low32(value.value), High32(value.value)>>
      [] value.op = "Bool" -> <<19, value.dst, IF value.value THEN U32(1) ELSE U32(0), Zero>>
      [] value.op = "Move" -> <<32, value.dst, value.src, Zero>>
      [] value.op = "Field" -> <<33, value.dst, value.src, value.field>>
      [] value.op = "Call" ->
            IF value.addr.tag = "Address"
            THEN <<34, value.addr.addr, value.args, value.dst>>
            ELSE <<35, value.addr.addr, value.args, value.dst>>
      [] value.op = "Binary" ->
            <<48 + BinaryOperationAsU8(value.bop), value.dst, value.left, value.right>>
      [] value.op = "Unary" ->
            <<64 + UnaryOperationAsU8(value.uop), value.dst, value.right, Zero>>

\* the opcodes of the arm `0x30..=0x3f`
BinaryRange == 48..63

\* the Unary arm written one hex digit too wide: `0x40..=0x5f`
UnaryRange_Wide == 64..95

\* the opcodes of the arm `0x40..=0x4f`
UnaryRange == 64..79

\* TryFrom<Bytes> for ByteCode
ByteCodeTryFrom(value) ==
    CASE value[1] = 0 -> Ok([op |-> "None"])
      [] value[1] = 1 -> Ok([op |-> "Halt"])
      [] value[1] = 2 -> Ok([op |-> "Jump", addr |-> Address(value[3])])
      [] value[1] = 3 -> Ok([op |-> "Jump", addr |-> FromRegister(value[3])])
      [] value[1] = 4 -> Ok([op |-> "JumpIf", cond |-> value[2], addr |-> Address(value[3])])
      [] value[1] = 5 -> Ok([op |-> "JumpIf", cond |-> value[2], addr |-> FromRegister(value[3])])
      [] value[1] = 16 -> Ok([op |-> "String", dst |-> value[2], addr |-> value[3]])
      [] value[1] = 17 -> Ok([op |-> "Int", dst |-> value[2], value |-> Join64(value[3], value[4])])
      [] value[1] = 18 -> Ok([op |-> "Float", dst |-> value[2], value |-> Join64(value[3], value[4])])
      [] value[1] = 19 -> Ok([op |-> "Bool", dst |-> value[2], value |-> (value[3] /= Zero)])
      [] value[1] = 32 -> Ok([op |-> "Move", dst |-> value[2], src |-> value[3]])
      [] value[1] = 33 -> Ok([op |-> "Field", dst |-> value[2], src |-> value[3], field |-> value[4]])
      [] value[1] = 34 -> Ok([op |-> "Call", addr |-> Address(value[2]), args |-> value[3], dst |-> value[4]])
      [] value[1] = 35 -> Ok([op |-> "Call", addr |-> FromRegister(value[2]), args |-> value[3], dst |-> value[4]])
      [] value[1] \in BinaryRange ->
            LET r == BinaryOperationTryFrom(value[1] - 32) IN
            IF r.tag = "Err"
            THEN Err(<<"InvalidBinaryOperation", value[1] - 32>>)
            ELSE Ok([op |-> "Binary", bop |-> r.val, dst |-> value[2],
                     left |-> value[3], right |-> value[4]])
      [] value[1] \in UnaryRange ->
            LET r == UnaryOperationTryFrom(value[1] - 32) IN
            IF r.tag = "Err"
            THEN Err(<<"InvalidUnaryOperation", value[1] - 48>>)
            ELSE Ok([op |-> "Unary", uop |-> r.val, dst |-> value[2], right |-> value[3]])
      [] OTHER -> Err(<<"InvalidOperation">>)

----------------------------------------------------------------------------
(* Inputs of the instruction codec *)

\* u32 operand values: 0, 3, 10 and 0x81020304
Words == {U32(0), U32(3), U32(10), <<4, 3, 2, 129>>}

\* u64 values: 0, 0x1_0000_0002, 0x0102030405060708, 2^64 - 1
Values64 == {<<0, 0, 0, 0, 0, 0, 0, 0>>, <<2, 0, 0, 0, 1, 0, 0, 0>>,
             <<8, 7, 6, 5, 4, 3, 2, 1>>,
             <<255, 255, 255, 255, 255, 255, 255, 255>>}

\* f64 bit patterns: 0.0, 1.0, a NaN, -0.0 and 0x0102030405060708
FloatBits == {<<0, 0, 0, 0, 0, 0, 0, 0>>, <<0, 0, 0, 0, 0, 0, 240, 63>>,
              <<0, 0, 0, 0, 0, 0, 248, 127>>, <<0, 0, 0, 0, 0, 0, 0, 128>>,
              <<8, 7, 6, 5, 4, 3, 2, 1>>}

Locators == {Address(a) : a \in Words} \cup {FromRegister(a) : a \in Words}

ByteCodes ==
    {[op |-> "None"], [op |-> "Halt"]}
    \cup {[op |-> "Jump", addr |-> l] : l \in Locators}
    \cup {[op |-> "JumpIf", cond |-> c, addr |-> l] : c \in Words, l \in Locators}
    \cup {[op |-> "String", dst |-> d, addr |-> a] : d \in Words, a \in Words}
    \cup {[op |-> "Int", dst |-> d, value |-> v] : d \in Words, v \in Values64}
    \cup {[op |-> "Float", dst |-> d, value |-> v] : d \in Words, v \in FloatBits}
    \cup {[op |-> "Bool", dst |-> d, value |-> b] : d \in Words, b \in BOOLEAN}
    \cup {[op |-> "Move", dst |-> d, src |-> s] : d \in Words, s \in Words}
    \cup {[op |-> "Field", dst |-> d, src |-> s, field |-> f] : d \in Words, s \in Words, f \in Words}
    \cup {[op |-> "Call", addr |-> l, args |-> a, dst |-> d] : l \in Locators, a \in Words, d \in Words}
    \cup {[op |-> "Binary", bop |-> o, dst |-> d, left |-> l, right |-> r] :
              o \in BinaryOperation, d \in Words, l \in Words, r \in Words}
    \cup {[op |-> "Unary", uop |-> o, dst |-> d, right |-> r] :
              o \in UnaryOperation, d \in Words, r \in Words}

\* operand words of the raw records handed to the decoder
RecordWords == {U32(0), <<4, 3, 2, 129>>}

Records == {<<o, a, b, c>> : o \in 0..255, a \in RecordWords, b \in RecordWords, c \in RecordWords}

----------------------------------------------------------------------------
(* Program container codec: serialization *)

\* number of bytes of the UTF-8 encoding of a char
Utf8Len(c) == IF c < 128 THEN 1 ELSE IF c < 2048 THEN 2 ELSE IF c < 65536 THEN 3 ELSE 4

\* String::len(): the length of the string in bytes of its UTF-8 encoding
RECURSIVE StringLen(_)
StringLen(string) ==
    IF string = <<>> THEN 0 ELSE Utf8Len(Head(string)) + StringLen(Tail(string))

\* `c as u8` of a char: the low 8 bits of the code point
CharAsU8(c) == c % 256

\* string.chars().map(|c| c as u8)
StringBody(string) == [j \in 1..Len(string) |-> CharAsU8(string[j])]

\* one turn of `for string in program.strings`
StringEntry(string) == ToBeBytes(U32(StringLen(string))) \o StringBody(string)

RECURSIVE StringTable(_)
StringTable(ss) ==
    IF ss = <<>> THEN <<>> ELSE StringEntry(Head(ss)) \o StringTable(Tail(ss))

\* one turn of `for bytecode in program.code`
RecordBytes(bc) ==
    LET b == ByteCodeIntoBytes(bc) IN
    <<b[1]>> \o ToBeBytes(b[2]) \o ToBeBytes(b[3]) \o ToBeBytes(b[4])

RECURSIVE CodeBytes(_)
CodeBytes(cs) ==
    IF cs = <<>> THEN <<>> ELSE RecordBytes(Head(cs)) \o CodeBytes(Tail(cs))

\* From<Program> for Vec<u8>
ProgramIntoVec(p) ==
    ToBeBytes(U32(Len(p.strings))) \o StringTable(p.strings) \o CodeBytes(p.code)

----------------------------------------------------------------------------
(* Inputs of the program codec *)

MaxStrings == 2
MaxCode == 2

\* "", "hi" and the one-character string U+00E9 (two bytes in UTF-8)
Strings == {<<>>, <<104, 105>>, <<233>>}

ProgramCodes ==
    {[op |-> "Halt"],
     [op |-> "Int", dst |-> U32(3), value |-> <<2, 0, 0, 0, 1, 0, 0, 0>>],
     [op |-> "Binary", bop |-> "Add", dst |-> U32(0), left |-> U32(3), right |-> U32(10)]}

SeqsUpTo(S, n) == UNION {[1..k -> S] : k \in 0..n}

Programs == {[strings |-> ss, code |-> cs] :
                 ss \in SeqsUpTo(Strings, MaxStrings), cs \in SeqsUpTo(ProgramCodes, MaxCode)}

\* bytes written over one byte of a serialized buffer: 0x06 (an unused
\* opcode, a count or a length that announces too much), 0x41 (an opcode of
\* the Unary arm) and 0x01
PokeBytes == {6, 65, 1}

----------------------------------------------------------------------------
(* Program container codec: parsing, one step per read *)

NoResult == [tag |-> "None"]
\* ProgramParseError::InsufficiantBytes
InsufficiantBytes == <<"InsufficiantBytes">>

\* the codec error mapped to the parser's own error: `.map_err(|_| InsufficiantBytes)`
ByteCodeError_Masked(e) == <<"InsufficiantBytes">>

\* ProgramParseError::ByteCodeError(err)
ByteCodeError(e) == <<"ByteCodeError", e>>

\* the four bytes a `(bytes.next(), bytes.next(), bytes.next(), bytes.next())`
\* yields at position p
Next4(p) == <<buf[p + 1], buf[p + 2], buf[p + 3], buf[p + 4]>>

\* a short read that hands back what was read so far
Fail_Partial(e) ==
    /\ result' = Ok([strings |-> strings, code |-> code])
    /\ pos' = Len(buf)
    /\ pc' = "done"

\* an early `return Err(..)`; the failed read has drained the iterator
Fail(e) ==
    /\ result' = Err(e)
    /\ pos' = Len(buf)
    /\ pc' = "done"

\* the test of `for _ in 0..size` after n strings
AfterString(n, sz) == IF NatLess(n, sz) THEN "string_size" ELSE "code"

\* a missing count read as "no strings, no code"
ReadCount_Lenient ==
    /\ pc = "ready"
    /\ IF Len(buf) - pos < 4
       THEN /\ result' = Ok([strings |-> <<>>, code |-> <<>>])
            /\ pos' = Len(buf)
            /\ pc' = "done"
            /\ UNCHANGED <<size, string_size, strings, code>>
       ELSE /\ size' = FromBeBytes(Next4(pos))
            /\ pos' = pos + 4
            /\ pc' = AfterString(0, size')
            /\ UNCHANGED <<string_size, strings, code, result>>
    /\ UNCHANGED <<codecVars, programVars>>

\* `let size = ...; let mut strings = Vec::with_capacity(size)`; the
\* allocation is taken to succeed whatever the count
ReadCount ==
    /\ pc = "ready"
    /\ IF Len(buf) - pos < 4
       THEN /\ Fail(InsufficiantBytes)
            /\ UNCHANGED <<size, string_size, strings, code>>
       ELSE /\ size' = FromBeBytes(Next4(pos))
            /\ pos' = pos + 4
            /\ pc' = AfterString(0, size')
            /\ UNCHANGED <<string_size, strings, code, result>>
    /\ UNCHANGED <<codecVars, programVars>>

\* `let string_size = ...`
ReadStringSize ==
    /\ pc = "string_size"
    /\ IF Len(buf) - pos < 4
       THEN /\ Fail(InsufficiantBytes)
            /\ UNCHANGED <<size, string_size, strings, code>>
       ELSE /\ string_size' = FromBeBytes(Next4(pos))
            /\ pos' = pos + 4
            /\ pc' = "string_body"
            /\ UNCHANGED <<size, strings, code, result>>
    /\ UNCHANGED <<codecVars, programVars>>

\* `for _ in 0..string_size { string.push(c as char) }; strings.push(string)`
ReadStringBody ==
    /\ pc = "string_body"
    /\ IF NatLess(Len(buf) - pos, string_size)
       THEN /\ Fail(InsufficiantBytes)
            /\ UNCHANGED <<size, string_size, strings, code>>
       ELSE /\ strings' = Append(strings, SubSeq(buf, pos + 1, pos + Val(string_size)))
            /\ pos' = pos + Val(string_size)
            /\ pc' = AfterString(Len(strings'), size)
            /\ UNCHANGED <<size, string_size, code, result>>
    /\ UNCHANGED <<codecVars, programVars>>

\* the record of the 13 bytes at position p
RecordAt(p) == <<buf[p + 1], FromBeBytes(Next4(p + 1)), FromBeBytes(Next4(p + 5)),
                 FromBeBytes(Next4(p + 9))>>

\* one turn of `while let Some(instr) = bytes.next().copied()`
ReadInstruction ==
    /\ pc = "code"
    /\ pos < Len(buf)
    /\ IF Len(buf) - pos < 13
       THEN /\ Fail(InsufficiantBytes)
            /\ UNCHANGED code
       ELSE LET r == ByteCodeTryFrom(RecordAt(pos)) IN
            IF r.tag = "Err"
            THEN /\ result' = Err(ByteCodeError(r.err))
                 /\ pos' = pos + 13
                 /\ pc' = "done"
                 /\ UNCHANGED code
            ELSE /\ code' = Append(code, r.val)
                 /\ pos' = pos + 13
                 /\ UNCHANGED <<pc, result>>
    /\ UNCHANGED <<size, string_size, strings, codecVars, programVars>>

\* the loop ends as soon as no whole record is left
Return_Early ==
    /\ pc = "code"
    /\ Len(buf) - pos < 13
    /\ result' = Ok([strings |-> strings, code |-> code])
    /\ pc' = "done"
    /\ UNCHANGED <<pos, size, string_size, strings, code, codecVars, programVars>>

\* the loop ends at the end of the buffer: `Ok(Self { strings, code })`
Return ==
    /\ pc = "code"
    /\ pos = Len(buf)
    /\ result' = Ok([strings |-> strings, code |-> code])
    /\ pc' = "done"
    /\ UNCHANGED <<pos, size, string_size, strings, code, codecVars, programVars>>

----------------------------------------------------------------------------
(* The callers: serialize a Program, hand a buffer to the parser *)

Serialize ==
    /\ pc = "new"
    /\ buf' = ProgramIntoVec(program)
    /\ pc' = "ready"
    /\ UNCHANGED <<program, cut, poked, pos, size, string_size, strings, code, result, codecVars>>

\* the buffer handed to the parser is the serialized one less its last k bytes
Truncate ==
    /\ pc = "ready"
    /\ cut = 0
    /\ ~poked
    /\ \E k \in 1..Len(buf) :
          /\ buf' = SubSeq(buf, 1, Len(buf) - k)
          /\ cut' = k
    /\ UNCHANGED <<program, poked, parserVars, codecVars>>

\* the buffer handed to the parser is the serialized one with byte p replaced
Poke ==
    /\ pc = "ready"
    /\ cut = 0
    /\ ~poked
    /\ \E p \in 1..Len(buf), v \in PokeBytes :
          /\ buf[p] /= v
          /\ buf' = [buf EXCEPT ![p] = v]
    /\ poked' = TRUE
    /\ UNCHANGED <<program, cut, parserVars, codecVars>>

\* the instruction codec on its own
Encode ==
    /\ cstep = "bytecode"
    /\ record' = ByteCodeIntoBytes(bytecode)
    /\ cstep' = "encoded"
    /\ UNCHANGED <<bytecode, decoded, programVars, parserVars>>

Decode ==
    /\ cstep \in {"encoded", "bytes"}
    /\ decoded' = ByteCodeTryFrom(record)
    /\ cstep' = IF cstep = "encoded" THEN "roundtrip" ELSE "decoded"
    /\ UNCHANGED <<bytecode, record, programVars, parserVars>>

----------------------------------------------------------------------------
(* Specifications *)

EmptyProgram == [strings |-> <<>>, code |-> <<>>]

ParserIdle ==
    /\ pos = 0
    /\ size = Zero
    /\ string_size = Zero
    /\ strings = <<>>
    /\ code = <<>>
    /\ result = NoResult

\* the program codec: a Program is serialized, the buffer (or the buffer
\* truncated, or the buffer with one byte replaced) is parsed
Init ==
    /\ program \in Programs
    /\ buf = <<>>
    /\ cut = 0
    /\ poked = FALSE
    /\ pc = "new"
    /\ ParserIdle
    /\ bytecode = [op |-> "None"]
    /\ record = <<0, Zero, Zero, Zero>>
    /\ decoded = NoResult
    /\ cstep = "off"

Next ==
    \/ Serialize
    \/ Truncate
    \/ Poke
    \/ ReadCount
    \/ ReadStringSize
    \/ ReadStringBody
    \/ ReadInstruction
    \/ Return

Spec == Init /\ [][Next]_vars

\* the instruction codec: a ByteCode is encoded and the record decoded, or a
\* raw record is decoded
InitCodec ==
    /\ \/ /\ cstep = "bytecode"
          /\ bytecode \in ByteCodes
          /\ record = <<0, Zero, Zero, Zero>>
       \/ /\ cstep = "bytes"
          /\ bytecode = [op |-> "None"]
          /\ record \in Records
    /\ decoded = NoResult
    /\ program = EmptyProgram
    /\ buf = <<>>
    /\ cut = 0
    /\ poked = FALSE
    /\ pc = "off"
    /\ ParserIdle

NextCodec == Encode \/ Decode

SpecCodec == InitCodec /\ [][NextCodec]_vars

----------------------------------------------------------------------------
(* The opcode table of the specification (section 4.3) *)

TableOpcodes == (0..5) \cup (16..19) \cup (32..35)

TableVariant(o) ==
    CASE o = 0 -> "None"
      [] o = 1 -> "Halt"
      [] o \in {2, 3} -> "Jump"
      [] o \in {4, 5} -> "JumpIf"
      [] o = 16 -> "String"
      [] o = 17 -> "Int"
      [] o = 18 -> "Float"
      [] o = 19 -> "Bool"
      [] o = 32 -> "Move"
      [] o = 33 -> "Field"
      [] o \in {34, 35} -> "Call"

TableLocator(o) == IF o \in {2, 4, 34} THEN "Address" ELSE "FromRegister"

\* section 4.2: Add=0, Sub=1, Div=2, Mul=3; Neg=0
TableBinaryCode == [Add |-> 0, Sub |-> 1, Div |-> 2, Mul |-> 3]
TableUnaryCode == [Neg |-> 0]

\* a record was decoded
Decoded == cstep \in {"decoded", "roundtrip"}

\* a ByteCode was encoded
Encoded == cstep \in {"encoded", "roundtrip"}

----------------------------------------------------------------------------
(* C1: decoding the record produced by encoding a ByteCode returns Ok of   *)
(* that ByteCode, for every variant and every operand value (a Float being *)
(* its 64-bit pattern).                                                    *)
C1_InstructionRoundTrip ==
    cstep = "roundtrip" => decoded = Ok(bytecode)

(* C5: a record whose opcode is neither in the table nor in the Binary or  *)
(* Unary sub-range fails with InvalidOperation whatever its operand words; *)
(* every opcode of the table decodes to the variant and Locator            *)
(* sub-variant the table assigns to it.                                    *)
C5_UnknownOpcode ==
    Decoded =>
        /\ record[1] \notin (TableOpcodes \cup (48..79)) =>
               decoded = [tag |-> "Err", err |-> <<"InvalidOperation">>]
        /\ record[1] \in TableOpcodes =>
               /\ decoded.tag = "Ok"
               /\ decoded.val.op = TableVariant(record[1])
               /\ decoded.val.op \in {"Jump", "JumpIf", "Call"} =>
                      decoded.val.addr.tag = TableLocator(record[1])

\* opcode 0x06 with non-zero operand words was rejected with InvalidOperation
C5_Witness ==
    /\ cstep = "decoded"
    /\ record[1] = 6
    /\ record[2] /= Zero
    /\ decoded = [tag |-> "Err", err |-> <<"InvalidOperation">>]

(* C6: opcode 0x30+c decodes to Binary with the operation of code c and    *)
(* (dst, left, right) = (word1, word2, word3) for c in 0..3 and fails with *)
(* InvalidBinaryOperation(c) for c in 4..15; opcode 0x40+c decodes to      *)
(* Unary Neg with (dst, right) = (word1, word2) for c = 0 and fails with   *)
(* InvalidUnaryOperation(c) for c in 1..15.                                *)
C6_SubRangeDecoding ==
    Decoded =>
        /\ record[1] \in 48..51 =>
               /\ decoded.tag = "Ok"
               /\ decoded.val.op = "Binary"
               /\ TableBinaryCode[decoded.val.bop] = record[1] - 48
               /\ decoded.val.dst = record[2]
               /\ decoded.val.left = record[3]
               /\ decoded.val.right = record[4]
        /\ record[1] \in 52..63 =>
               decoded = [tag |-> "Err", err |-> <<"InvalidBinaryOperation", record[1] - 48>>]
        /\ record[1] = 64 =>
               decoded = [tag |-> "Ok",
                          val |-> [op |-> "Unary", uop |-> "Neg", dst |-> record[2],
                                   right |-> record[3]]]
        /\ record[1] \in 65..79 =>
               decoded = [tag |-> "Err", err |-> <<"InvalidUnaryOperation", record[1] - 64>>]

(* C7: encoding is total and follows the opcode table: the opcode byte     *)
(* (one per Locator sub-variant for Jump, JumpIf and Call, 0x30 + code for *)
(* Binary, 0x40 + code for Unary, within a byte), the placement of the     *)
(* operands, 0 in the unused words, 0 or 1 for a Bool, and the low 32 bits *)
(* of a 64-bit value in word2 and the high 32 bits in word3, which         *)
(* decoding joins back into the value.                                     *)
C7_EncodingTable ==
    Encoded =>
        LET o == record[1]
            v == bytecode
        IN
        /\ o \in 0..255
        /\ Len(record) = 4
        /\ \A j \in 2..4 : Len(record[j]) = 4 /\ \A d \in 1..4 : record[j][d] \in 0..255
        /\ CASE v.op \in {"None", "Halt"} ->
                   /\ o \in TableOpcodes /\ TableVariant(o) = v.op
                   /\ record[2] = Zero /\ record[3] = Zero /\ record[4] = Zero
             [] v.op = "Jump" ->
                   /\ o \in {2, 3} /\ TableLocator(o) = v.addr.tag
                   /\ record[2] = Zero /\ record[3] = v.addr.addr /\ record[4] = Zero
             [] v.op = "JumpIf" ->
                   /\ o \in {4, 5} /\ TableLocator(o) = v.addr.tag
                   /\ record[2] = v.cond /\ record[3] = v.addr.addr /\ record[4] = Zero
             [] v.op = "String" ->
                   /\ o = 16
                   /\ record[2] = v.dst /\ record[3] = v.addr /\ record[4] = Zero
             [] v.op \in {"Int", "Float"} ->
                   /\ o = (IF v.op = "Int" THEN 17 ELSE 18)
                   /\ record[2] = v.dst
                   /\ record[3] = SubSeq(v.value, 1, 4)
                   /\ record[4] = SubSeq(v.value, 5, 8)
                   /\ cstep = "roundtrip" =>
                          decoded.tag = "Ok" /\ decoded.val.value = v.value
             [] v.op = "Bool" ->
                   /\ o = 19
                   /\ record[2] = v.dst
                   /\ record[3] = (IF v.value THEN <<1, 0, 0, 0>> ELSE <<0, 0, 0, 0>>)
                   /\ record[4] = Zero
             [] v.op = "Move" ->
                   /\ o = 32
                   /\ record[2] = v.dst /\ record[3] = v.src /\ record[4] = Zero
             [] v.op = "Field" ->
                   /\ o = 33
                   /\ record[2] = v.dst /\ record[3] = v.src /\ record[4] = v.field
             [] v.op = "Call" ->
                   /\ o \in {34, 35} /\ TableLocator(o) = v.addr.tag
                   /\ record[2] = v.addr.addr /\ record[3] = v.args /\ record[4] = v.dst
             [] v.op = "Binary" ->
                   /\ o = 48 + TableBinaryCode[v.bop]
                   /\ record[2] = v.dst /\ record[3] = v.left /\ record[4] = v.right
             [] v.op = "Unary" ->
                   /\ o = 64 + TableUnaryCode[v.uop]
                   /\ record[2] = v.dst /\ record[3] = v.right /\ record[4] = Zero

\* Int{dst: 3, value: 0x1_0000_0002} was encoded as (0x11, 3, 2, 1) and
\* decoded back
C7_Witness ==
    /\ cstep = "roundtrip"
    /\ bytecode = [op |-> "Int", dst |-> <<3, 0, 0, 0>>, value |-> <<2, 0, 0, 0, 1, 0, 0, 0>>]
    /\ record = <<17, <<3, 0, 0, 0>>, <<2, 0, 0, 0>>, <<1, 0, 0, 0>>>>
    /\ decoded = Ok(bytecode)

----------------------------------------------------------------------------
(* The wire format of the specification (section 6) *)

\* 4-byte big-endian image of a small natural
BigEndian4(n) == <<(n \div 16777216) % 256, (n \div 65536) % 256, (n \div 256) % 256, n % 256>>

\* StringEntry := Length:u32 Byte[Length], one truncated character per Byte
RECURSIVE FormatStringTable(_)
FormatStringTable(ss) ==
    IF ss = <<>> THEN <<>>
    ELSE BigEndian4(Len(Head(ss)))
         \o [j \in 1..Len(Head(ss)) |-> Head(ss)[j] % 256]
         \o FormatStringTable(Tail(ss))

\* number of bytes of the string table of a pool
RECURSIVE FormatTableLen(_)
FormatTableLen(ss) ==
    IF ss = <<>> THEN 0 ELSE 4 + Len(Head(ss)) + FormatTableLen(Tail(ss))

\* number of bytes of the image of a Program
FormatLen(p) == 4 + FormatTableLen(p.strings) + 13 * Len(p.code)

\* every character of every string of the Program fits one byte
OneByteChars(p) == \A j \in 1..Len(p.strings) : \A c \in 1..Len(p.strings[j]) : p.strings[j][c] <= 255

\* the buffer is the serialized Program as it was written
Pristine == pc /= "new" /\ pc /= "off" /\ cut = 0 /\ ~poked

Insufficient == [tag |-> "Err", err |-> <<"InsufficiantBytes">>]

----------------------------------------------------------------------------
(* C2: parsing the serialized buffer of a Program whose strings hold only  *)
(* characters of code points 0..255 returns Ok of that Program.            *)
C2_ProgramRoundTrip ==
    (pc = "done" /\ Pristine /\ OneByteChars(program)) =>
        result = [tag |-> "Ok", val |-> program]

(* C3: parsing a serialized buffer less its last k bytes, 1 <= k <= N,     *)
(* fails with InsufficientBytes.                                           *)
C3_Truncation ==
    (pc = "done" /\ cut > 0) => result = Insufficient

(* C3 as amended: parsing a serialized buffer less its last k bytes        *)
(* never returns the serialized Program; it returns a Program only when    *)
(* the kept prefix ends exactly at the end of the string table or of a     *)
(* 13-byte record the parser read, and otherwise fails with                *)
(* InsufficientBytes or with the error of a whole record of the prefix     *)
(* that the instruction codec rejects.                                     *)
C3_TruncationAmended ==
    (pc = "done" /\ cut > 0) =>
        \/ result = Insufficient
        \/ /\ result.tag = "Ok"
           /\ result.val /= program
           /\ Len(buf) = FormatLen(result.val)
        \/ /\ result.tag = "Err"
           /\ result.err[1] = "ByteCodeError"
           /\ pos >= 4 + 13
           /\ pos <= Len(buf)
           /\ ByteCodeTryFrom(RecordAt(pos - 13)) = [tag |-> "Err", err |-> result.err[2]]

\* the cut fell on the end of a record: the prefix parsed to a shorter Program
C3_Witness ==
    /\ pc = "done"
    /\ cut = 13
    /\ Len(program.code) = 2
    /\ result.tag = "Ok"
    /\ Len(result.val.code) = 1
    /\ result.val.strings = program.strings

\* the parser is about to make a read the buffer cannot satisfy
ShortRead ==
    \/ pc = "ready" /\ Len(buf) < 4
    \/ pc = "string_size" /\ Len(buf) - pos < 4
    \/ pc = "string_body" /\ NatLess(Len(buf) - pos, string_size)
    \/ pc = "code" /\ Len(buf) - pos \in 1..12

(* C4: when the buffer ends before the count, a string length, a string    *)
(* body or the three words of a record is complete, the parser returns     *)
(* InsufficientBytes and no Program.                                       *)
C4_ShortRead ==
    [][(ShortRead /\ buf' = buf) => (pc' = "done" /\ result' = Insufficient)]_vars

\* a short read after a string and an instruction were read
C4_Witness ==
    /\ pc = "done"
    /\ result = Insufficient
    /\ strings /= <<>>
    /\ code /= <<>>

(* C8: the serialized buffer starts with the 4-byte big-endian count of    *)
(* strings followed, for each string in pool order, by the 4-byte          *)
(* big-endian count of its characters and one byte per character.          *)
C8_StringTable ==
    Pristine =>
        /\ Len(buf) >= 4 + FormatTableLen(program.strings)
        /\ SubSeq(buf, 1, 4 + FormatTableLen(program.strings))
               = BigEndian4(Len(program.strings)) \o FormatStringTable(program.strings)

(* C9: when the parser has a whole 13-byte record that the instruction     *)
(* codec rejects, it returns that error wrapped as ByteCodeError at once,  *)
(* whatever follows the record; the record reported is the first rejected  *)
(* one: the records between the string table and it were all decoded.      *)
C9_Propagation ==
    /\ [][(/\ pc = "code"
           /\ buf' = buf
           /\ Len(buf) - pos >= 13
           /\ ByteCodeTryFrom(RecordAt(pos)).tag = "Err")
          => (/\ pc' = "done"
              /\ result' = [tag |-> "Err",
                            err |-> <<"ByteCodeError", ByteCodeTryFrom(RecordAt(pos)).err>>])]_vars
    /\ []((pc = "done" /\ result.tag = "Err" /\ result.err[1] /= "InsufficiantBytes") =>
              /\ result.err[1] = "ByteCodeError"
              /\ result.err[2][1] \in {"InvalidOperation", "InvalidBinaryOperation",
                                       "InvalidUnaryOperation"}
              /\ pos = 4 + FormatTableLen(strings) + 13 * (Len(code) + 1)
              /\ pos <= Len(buf)
              /\ ByteCodeTryFrom(RecordAt(pos - 13)) = [tag |-> "Err", err |-> result.err[2]])

\* a rejected record was reported although a truncated record follows it
C9_Witness ==
    /\ pc = "done"
    /\ result.tag = "Err"
    /\ result.err[1] = "ByteCodeError"
    /\ Len(buf) - pos \in 1..12

\* a step of the parser can be taken
ParserStep == ReadCount \/ ReadStringSize \/ ReadStringBody \/ ReadInstruction \/ Return

\* what is left to do: twice the unread bytes, plus the reads that take no byte
Remaining ==
    IF pc = "done" THEN 0
    ELSE 2 * (Len(buf) - pos) + (IF pc = "string_body" THEN 2 ELSE 1)

(* C10: the parser terminates: until it returns it can always take a step, *)
(* and every step brings it closer to the end of the buffer, so that it    *)
(* takes at most 2 * length + 2 steps; when it returns Ok(p) the buffer is *)
(* exactly the image of p: 4 + sum of (4 + characters) over the strings +  *)
(* 13 per instruction bytes, read to its end; the buffer 00 00 00 00       *)
(* parses to the empty Program.                                            *)
C10_ExactConsumption ==
    /\ [](pc \notin {"new", "done"} => ENABLED ParserStep)
    /\ [](pos <= Len(buf) \/ pc = "new")
    /\ [][buf' = buf => Remaining' < Remaining]_vars
    /\ [](pc = "done" /\ result.tag = "Ok" =>
              /\ pos = Len(buf)
              /\ Len(buf) = FormatLen(result.val)
              /\ result.val = [strings |-> strings, code |-> code])
    /\ [](pc = "done" /\ buf = <<0, 0, 0, 0>> =>
              result = [tag |-> "Ok", val |-> [strings |-> <<>>, code |-> <<>>]])

\* a buffer with a string and an instruction parsed to a Program
C10_Witness ==
    /\ pc = "done"
    /\ result.tag = "Ok"
    /\ result.val.strings /= <<>>
    /\ result.val.code /= <<>>
    /\ Len(buf) = FormatLen(result.val)

====
